---------------------------- MODULE Spec2Model ----------------------------
(***************************************************************************)
(* Savitzky-Golay filter (package savitzkygolay): NewFilter /              *)
(* NewFilterWindow build a filterConfiguration with its weight table       *)
(* (computeWeights, polyWeight, gramPolynomial, productOfRange) and        *)
(* Process convolves a data sequence against that table, dividing every    *)
(* output by the spacing factor getHs.                                     *)
(*                                                                         *)
(* float64 values are modelled as exact rationals extended with +Inf, -Inf *)
(* and NaN, following the IEEE-754 rules Go applies to /, *, +, - and      *)
(* math.Pow: rounding is abstracted away, the special values are not.      *)
(* Go slices are 0-based; sequences here are 1-based and every access goes *)
(* through At, which keeps the source's 0-based index arithmetic.          *)
(***************************************************************************)
EXTENDS Integers, Sequences, FiniteSets

(***************************************************************************)
(* Bounds of the model.                                                    *)
(***************************************************************************)
\* largest windowSize argument tried
MaxWindow == 7
\* largest derivative argument tried
MaxDeriv == 1
\* largest polynomial argument tried
MaxPoly == 5
\* longest data sequence tried (the x sequence may be one longer)
MaxData == 8

(***************************************************************************)
(* float64 arithmetic: [t, n, d] with t in fin/pinf/ninf/nan; a finite     *)
(* value is the reduced fraction n/d with d > 0.                           *)
(***************************************************************************)
Abs(a) == IF a < 0 THEN -a ELSE a

Sgn(a) == IF a < 0 THEN -1 ELSE IF a > 0 THEN 1 ELSE 0

RECURSIVE GCD(_, _)
GCD(a, b) == IF b = 0 THEN a ELSE GCD(b, a % b)

NaN == [t |-> "nan", n |-> 0, d |-> 1]

PInf == [t |-> "pinf", n |-> 0, d |-> 1]

NInf == [t |-> "ninf", n |-> 0, d |-> 1]

\* the reduced fraction n/d, d # 0
Fin(n, d) ==
    LET g == GCD(Abs(n), Abs(d))
        s == IF d < 0 THEN -1 ELSE 1
    IN  [t |-> "fin", n |-> (s * n) \div g, d |-> Abs(d) \div g]

\* float64(i) of an int
FromInt(i) == [t |-> "fin", n |-> i, d |-> 1]

Zero == FromInt(0)

One == FromInt(1)

IsFin(a) == a.t = "fin"

\* sign of an extended value that is not NaN
FSign(a) == IF a.t = "pinf" THEN 1 ELSE IF a.t = "ninf" THEN -1 ELSE Sgn(a.n)

InfOfSign(s) == IF s > 0 THEN PInf ELSE NInf

FNeg(a) ==
    IF a.t = "nan" THEN NaN
    ELSE IF a.t = "pinf" THEN NInf
    ELSE IF a.t = "ninf" THEN PInf
    ELSE [t |-> "fin", n |-> -a.n, d |-> a.d]

FAdd(a, b) ==
    IF a.t = "nan" \/ b.t = "nan" THEN NaN
    ELSE IF IsFin(a) /\ IsFin(b)
         THEN LET g == GCD(a.d, b.d)
              IN  Fin(a.n * (b.d \div g) + b.n * (a.d \div g), (a.d \div g) * b.d)
    ELSE IF IsFin(a) THEN b
    ELSE IF IsFin(b) THEN a
    ELSE IF a.t = b.t THEN a
    ELSE NaN

FSub(a, b) == FAdd(a, FNeg(b))

FMul(a, b) ==
    IF a.t = "nan" \/ b.t = "nan" THEN NaN
    ELSE IF IsFin(a) /\ IsFin(b)
         THEN LET g1 == GCD(Abs(a.n), b.d)
                  g2 == GCD(Abs(b.n), a.d)
              IN  Fin((a.n \div g1) * (b.n \div g2), (a.d \div g2) * (b.d \div g1))
    ELSE IF FSign(a) = 0 \/ FSign(b) = 0 THEN NaN
    ELSE InfOfSign(FSign(a) * FSign(b))

\* a / b; every zero divisor of the program is +0 (float64 of the int 0, or a
\* sum/power of differences that is never -0)
FDiv(a, b) ==
    IF a.t = "nan" \/ b.t = "nan" THEN NaN
    ELSE IF IsFin(b) /\ b.n # 0
         THEN IF IsFin(a) THEN FMul(a, Fin(b.d, b.n))
              ELSE InfOfSign(FSign(a) * Sgn(b.n))
    ELSE IF IsFin(b)
         THEN IF FSign(a) = 0 THEN NaN ELSE InfOfSign(FSign(a))
    ELSE IF IsFin(a) THEN Zero
    ELSE NaN

\* math.Pow(a, float64(e)) for an int e >= 0: Pow(x, 0) is 1 for every x, NaN
\* included
RECURSIVE FPow(_, _)
FPow(a, e) ==
    IF e = 0 THEN One
    ELSE IF a.t = "nan" THEN NaN
    ELSE FMul(a, FPow(a, e - 1))

\* Go's %: the remainder of the truncated division
GoRem(a, b) == IF a >= 0 THEN a % b ELSE -((-a) % b)

\* s[i] of a Go slice
At(s, i) == s[i + 1]

InRange(s, i) == i >= 0 /\ i < Len(s)

(***************************************************************************)
(* Weight table.                                                           *)
(***************************************************************************)
\* int(math.Floor(float64(windowSize) / 2.0)); \div rounds down
HalfOf(windowSize) == windowSize \div 2

\* the divisor k*(2m-k+1) of both coefficients of the recurrence
gramDivisor(m, k) == k * (2 * m - k + 1)

RECURSIVE gramPolynomial(_, _, _, _)
gramPolynomial(i, m, k, s) ==
    IF k > 0
    THEN FSub(FMul(FDiv(FromInt(4 * k - 2), FromInt(gramDivisor(m, k))),
                   FAdd(FMul(FromInt(i), gramPolynomial(i, m, k - 1, s)),
                        FMul(FromInt(s), gramPolynomial(i, m, k - 1, s - 1)))),
              FMul(FDiv(FromInt((k - 1) * (2 * m + k)), FromInt(gramDivisor(m, k))),
                   gramPolynomial(i, m, k - 2, s)))
    ELSE IF k = 0 /\ s = 0 THEN One ELSE Zero

\* the loop of productOfRange: gf *= j for j = lo .. a
RECURSIVE productLoop(_, _)
productLoop(lo, a) == IF lo > a THEN 1 ELSE lo * productLoop(lo + 1, a)

productOfRange(a, b) == IF a >= b THEN productLoop(a - b + 1, a) ELSE 1

\* a term with the factor 2k+2 in place of 2k+1
polyTerm_Factor(i, t, windowMiddle, k, derivitive) ==
    FMul(FMul(FMul(FromInt(2 * k + 2),
                   FDiv(FromInt(productOfRange(2 * windowMiddle, k)),
                        FromInt(productOfRange(2 * windowMiddle + k + 1, k + 1)))),
              gramPolynomial(i, windowMiddle, k, 0)),
         gramPolynomial(t, windowMiddle, k, derivitive))

\* one term of the sum of polyWeight
polyTerm(i, t, windowMiddle, k, derivitive) ==
    FMul(FMul(FMul(FromInt(2 * k + 1),
                   FDiv(FromInt(productOfRange(2 * windowMiddle, k)),
                        FromInt(productOfRange(2 * windowMiddle + k + 1, k + 1)))),
              gramPolynomial(i, windowMiddle, k, 0)),
         gramPolynomial(t, windowMiddle, k, derivitive))

\* sum after the iterations k = 0 .. upto of the loop of polyWeight
RECURSIVE polySum(_, _, _, _, _)
polySum(i, t, windowMiddle, upto, derivitive) ==
    IF upto < 0 THEN Zero
    ELSE FAdd(polySum(i, t, windowMiddle, upto - 1, derivitive),
              polyTerm(i, t, windowMiddle, upto, derivitive))

polyWeight(i, t, windowMiddle, polynomial, derivitive) ==
    polySum(i, t, windowMiddle, polynomial, derivitive)

\* weights[row+windowMiddle][col+windowMiddle] = polyWeight(col, row, ...)
computeWeights(windowSize, polynomial, derivative) ==
    LET windowMiddle == HalfOf(windowSize)
    IN  [r \in 1..windowSize |->
            [c \in 1..windowSize |->
                polyWeight(c - 1 - windowMiddle, r - 1 - windowMiddle,
                           windowMiddle, polynomial, derivative)]]

\* the divisors k*(2m-k+1) evaluated by a call gramPolynomial(_, m, k, _) and
\* the calls it makes
RECURSIVE gramDivisors(_, _)
gramDivisors(m, k) ==
    IF k > 0
    THEN {gramDivisor(m, k)} \cup gramDivisors(m, k - 1) \cup gramDivisors(m, k - 2)
    ELSE {}

\* depth of the recursion of a call gramPolynomial(_, _, k, _)
RECURSIVE gramDepth(_)
gramDepth(k) ==
    IF k > 0
    THEN LET a == gramDepth(k - 1)
             b == gramDepth(k - 2)
         IN  1 + (IF a > b THEN a ELSE b)
    ELSE 0

\* every divisor the weight computation of a configuration evaluates
weightDivisors(windowSize, polynomial) ==
    LET m == HalfOf(windowSize)
    IN  UNION {gramDivisors(m, k) \cup {productOfRange(2 * m + k + 1, k + 1)} :
               k \in 0..polynomial}

(***************************************************************************)
(* State.                                                                  *)
(***************************************************************************)
VARIABLES
    pc,         \* where the caller is: start, ctorError, idle, or inside /
                \* after Process: border, interior, done, error, panic
    ctorArgs,   \* <<windowSize, derivative, polynomial>> passed to NewFilter
    filter,     \* the filterConfiguration NewFilter returned, or NoFilter (nil)
    ctorErr,    \* whether NewFilter returned an error
    divisors,   \* every divisor the weight computation evaluated
    data,       \* the caller's data slice
    h,          \* the caller's x slice (parameter h of Process)
    results,    \* the results slice of the running call; what it returned
    procErr,    \* whether Process returned an error
    i,          \* loop variable of the running loop of Process
    writes,     \* per index of results: how many times it was assigned
    writer,     \* per index of results: the loop that assigned it
    hsCount,    \* per index of results: count of its getHs call
    hsUsed,     \* per index of results: the factor its getHs call returned
    iters,      \* iterations executed by the border and the interior loop
    prev        \* the previous call on the same data: [h, results, err], or NoCall

vars == <<pc, ctorArgs, filter, ctorErr, divisors, data, h, results, procErr,
          i, writes, writer, hsCount, hsUsed, iters, prev>>

callVars == <<data, h, results, procErr, i, writes, writer, hsCount, hsUsed, iters, prev>>

NoFilter == [windowSize |-> 0, derivative |-> 0, polynomial |-> 0, weights |-> <<>>]

NoCall == [h |-> <<>>, results |-> <<>>, err |-> FALSE, valid |-> FALSE]

NoIters == [border |-> 0, interior |-> 0]

Init ==
    /\ pc = "start"
    /\ ctorArgs = <<0, 0, 0>>
    /\ filter = NoFilter
    /\ ctorErr = FALSE
    /\ divisors = {}
    /\ data = <<>>
    /\ h = <<>>
    /\ results = <<>>
    /\ procErr = FALSE
    /\ i = 0
    /\ writes = <<>>
    /\ writer = <<>>
    /\ hsCount = <<>>
    /\ hsUsed = <<>>
    /\ iters = NoIters
    /\ prev = NoCall

(***************************************************************************)
(* NewFilter, NewFilterWindow.                                             *)
(***************************************************************************)
\* the argument checks without the parity test
NewFilterRejects_NoParity(windowSize, derivitive, polynomial) ==
    \/ windowSize < 5
    \/ derivitive < 0
    \/ polynomial < 0

\* the three argument checks of NewFilter
NewFilterRejects(windowSize, derivitive, polynomial) ==
    \/ GoRem(windowSize, 2) = 0 \/ windowSize < 5
    \/ derivitive < 0
    \/ polynomial < 0

NewFilter(windowSize, derivitive, polynomial) ==
    /\ pc = "start"
    /\ ctorArgs' = <<windowSize, derivitive, polynomial>>
    /\ IF NewFilterRejects(windowSize, derivitive, polynomial)
       THEN /\ pc' = "ctorError"
            /\ filter' = NoFilter
            /\ ctorErr' = TRUE
            /\ divisors' = {}
       ELSE /\ pc' = "idle"
            /\ filter' = [windowSize |-> windowSize, derivative |-> derivitive,
                          polynomial |-> polynomial,
                          weights |-> computeWeights(windowSize, polynomial, derivitive)]
            /\ ctorErr' = FALSE
            /\ divisors' = weightDivisors(windowSize, polynomial)
    /\ UNCHANGED callVars

NewFilterWindow(windowSize) == NewFilter(windowSize, 0, 3)

(***************************************************************************)
(* Inputs of Process: a few shapes of data and x, in every length up to    *)
(* the bound (x also one longer than the longest data).                    *)
(***************************************************************************)
DataKinds == {"const", "square"}

DataOf(kind, n) ==
    [j \in 1..n |-> IF kind = "const" THEN FromInt(3) ELSE FromInt(j * j + 1)]

DataSeqs == {DataOf(kind, n) : kind \in DataKinds, n \in 0..MaxData}

XKinds == {"unit", "square", "flat"}

XOf(kind, n) ==
    [j \in 1..n |-> IF kind = "unit" THEN FromInt(j)
                    ELSE IF kind = "square" THEN FromInt(j * j)
                    ELSE FromInt(2)]

XSeqs == {XOf(kind, n) : kind \in XKinds, n \in 0..(MaxData + 1)}

\* the x sequences a call on dat is tried with: every shape in the length of
\* dat, and one shape in every other length
XSeqsFor(dat) ==
    {xx \in XSeqs : Len(xx) = Len(dat) \/ xx = XOf("unit", Len(xx))}

(***************************************************************************)
(* getHs.                                                                  *)
(***************************************************************************)
\* the guard with its upper limit one too far
getHsGuard_UpTo(hh, j) == j >= 0 /\ j < Len(hh)

\* the guard that skips index 0
getHsGuard_Strict(hh, j) == j > 0 /\ j < Len(hh) - 1

\* the condition under which iteration i of getHs reads h[i+1] and h[i]
getHsGuard(hh, j) == j >= 0 /\ j < Len(hh) - 1

\* hs and count after the iterations lo .. hi of the loop of getHs
RECURSIVE getHsLoop(_, _, _)
getHsLoop(hh, lo, hi) ==
    IF hi < lo THEN [hs |-> Zero, count |-> 0]
    ELSE LET before == getHsLoop(hh, lo, hi - 1)
         IN  IF getHsGuard(hh, hi)
             THEN [hs |-> FAdd(before.hs, FSub(At(hh, hi + 1), At(hh, hi))),
                   count |-> before.count + 1]
             ELSE before

getHsCount(hh, center, half) == getHsLoop(hh, center - half, center + half - 1).count

\* the averaged spacing without math.Pow
getHs_NoPow(hh, center, half, derivative) ==
    LET end == getHsLoop(hh, center - half, center + half - 1)
    IN  FDiv(end.hs, FromInt(end.count))

getHs(hh, center, half, derivative) ==
    LET end == getHsLoop(hh, center - half, center + half - 1)
    IN  FPow(FDiv(end.hs, FromInt(end.count)), derivative)

\* whether every read h[i+1], h[i] of a getHs call is inside h
getHsReadsOk(hh, center, half) ==
    \A j \in (center - half)..(center + half - 1) :
        getHsGuard(hh, j) => InRange(hh, j + 1) /\ InRange(hh, j)

(***************************************************************************)
(* Process.                                                                *)
(***************************************************************************)
\* the length check of Process
ProcessRejects(windowSize, dat) == windowSize > Len(dat)

\* a border loop that stops one iteration early
borderCond_Short(ii, halfWindow) == ii < halfWindow - 1

\* condition of the border loop
borderCond(ii, halfWindow) == ii < halfWindow

\* wg1 := weights[halfWindow-i-1]
leftRow(ii, halfWindow) == halfWindow - ii - 1

\* the right border row taken one too low
rightRow_Low(ii, halfWindow) == halfWindow + ii

\* wg2 := weights[halfWindow+i+1]
rightRow(ii, halfWindow) == halfWindow + ii + 1

\* data[numPoints-windowSize+l]
rightOffset(numPoints, windowSize) == numPoints - windowSize

\* results[halfWindow-i-1]
leftIndex(ii, halfWindow) == halfWindow - ii - 1

\* results[numPoints-halfWindow+i]
rightIndex(ii, numPoints, halfWindow) == numPoints - halfWindow + ii

\* an interior loop that stops one window early
interiorCond_Short(ii, numPoints) == ii < numPoints

\* condition of the interior loop
interiorCond(ii, numPoints) == ii <= numPoints

\* data[l+i-windowSize]
interiorOffset(ii, windowSize) == ii - windowSize

\* results[i-halfWindow-1]
interiorIndex(ii, halfWindow) == ii - halfWindow - 1

\* d after the iterations l = 0 .. upto of: d += wg[l] * data[off+l]
RECURSIVE convolve(_, _, _, _)
convolve(wg, dat, off, upto) ==
    IF upto < 0 THEN Zero
    ELSE FAdd(convolve(wg, dat, off, upto - 1),
              FMul(At(wg, upto), At(dat, off + upto)))

\* whether every read wg[l], data[off+l] of a convolution loop is in range
convolveReadsOk(wg, dat, off, windowSize) ==
    \A l \in 0..(windowSize - 1) : InRange(wg, l) /\ InRange(dat, off + l)

\* s with s[idx] = v
Store(s, idx, v) == [s EXCEPT ![idx + 1] = v]

Bump(s, idx) == [s EXCEPT ![idx + 1] = @ + 1]

halfWindow == HalfOf(filter.windowSize)

numPoints == Len(data)

\* entry of Process on the slices dat and xx: the length check and the
\* allocation of results
Enter(dat, xx) ==
    /\ data' = dat
    /\ h' = xx
    /\ i' = 0
    /\ iters' = NoIters
    /\ IF ProcessRejects(filter.windowSize, dat)
       THEN /\ pc' = "error"
            /\ results' = <<>>
            /\ procErr' = TRUE
            /\ writes' = <<>>
            /\ writer' = <<>>
            /\ hsCount' = <<>>
            /\ hsUsed' = <<>>
       ELSE /\ pc' = "border"
            /\ results' = [j \in 1..Len(dat) |-> Zero]
            /\ procErr' = FALSE
            /\ writes' = [j \in 1..Len(dat) |-> 0]
            /\ writer' = [j \in 1..Len(dat) |-> "none"]
            /\ hsCount' = [j \in 1..Len(dat) |-> 0]
            /\ hsUsed' = [j \in 1..Len(dat) |-> Zero]
    /\ UNCHANGED <<ctorArgs, filter, ctorErr, divisors>>

\* a call filter.Process(dat, xx)
Process(dat, xx) ==
    /\ pc = "idle"
    /\ prev' = NoCall
    /\ Enter(dat, xx)

\* after a call returned: the same filter and data again, with an x of the same
\* length (the same x included)
ProcessAgain(xx) ==
    /\ pc \in {"done", "error"}
    /\ Len(xx) = Len(h)
    /\ xx \in XSeqsFor(data)
    /\ prev' = [h |-> h, results |-> results, err |-> procErr, valid |-> TRUE]
    /\ Enter(data, xx)

\* the body of one iteration of the border loop: what it reads and writes
BorderBody ==
    /\ pc = "border"
    /\ borderCond(i, halfWindow)
    /\ LET r1 == leftRow(i, halfWindow)
           r2 == rightRow(i, halfWindow)
           o2 == rightOffset(numPoints, filter.windowSize)
           j1 == leftIndex(i, halfWindow)
           j2 == rightIndex(i, numPoints, halfWindow)
           ok == /\ InRange(filter.weights, r1)
                 /\ InRange(filter.weights, r2)
                 /\ convolveReadsOk(At(filter.weights, r1), data, 0, filter.windowSize)
                 /\ convolveReadsOk(At(filter.weights, r2), data, o2, filter.windowSize)
                 /\ getHsReadsOk(h, j1, halfWindow)
                 /\ InRange(results, j1)
                 /\ getHsReadsOk(h, j2, halfWindow)
                 /\ InRange(results, j2)
       IN  IF ~ok
           THEN /\ pc' = "panic"
                /\ UNCHANGED <<results, writes, writer, hsCount, hsUsed, i, iters>>
           ELSE LET d1 == convolve(At(filter.weights, r1), data, 0, filter.windowSize - 1)
                    d2 == convolve(At(filter.weights, r2), data, o2, filter.windowSize - 1)
                    hs1 == getHs(h, j1, halfWindow, filter.derivative)
                    hs2 == getHs(h, j2, halfWindow, filter.derivative)
                IN  /\ pc' = "border"
                    /\ results' = Store(Store(results, j1, FDiv(d1, hs1)), j2, FDiv(d2, hs2))
                    /\ writes' = Bump(Bump(writes, j1), j2)
                    /\ writer' = Store(Store(writer, j1, "left"), j2, "right")
                    /\ hsCount' = Store(Store(hsCount, j1, getHsCount(h, j1, halfWindow)),
                                        j2, getHsCount(h, j2, halfWindow))
                    /\ hsUsed' = Store(Store(hsUsed, j1, hs1), j2, hs2)
                    /\ i' = i + 1
                    /\ iters' = [iters EXCEPT !.border = @ + 1]

\* a border iteration that also stores its left output into the caller's data
BorderIter_InPlace ==
    /\ BorderBody
    /\ data' = IF pc' = "panic" THEN data
               ELSE Store(data, leftIndex(i, halfWindow),
                          At(results', leftIndex(i, halfWindow)))
    /\ UNCHANGED <<ctorArgs, filter, ctorErr, divisors, h, procErr, prev>>

\* one iteration of the border loop
BorderIter ==
    /\ BorderBody
    /\ UNCHANGED <<ctorArgs, filter, ctorErr, divisors, data, h, procErr, prev>>

\* the border loop ends; wg := weights[halfWindow]; the interior loop starts at
\* i = windowSize
InteriorEnter ==
    /\ pc = "border"
    /\ ~borderCond(i, halfWindow)
    /\ IF InRange(filter.weights, halfWindow)
       THEN pc' = "interior" /\ i' = filter.windowSize
       ELSE pc' = "panic" /\ i' = i
    /\ UNCHANGED <<ctorArgs, filter, ctorErr, divisors, data, h, results, procErr,
                   writes, writer, hsCount, hsUsed, iters, prev>>

\* one iteration of the interior loop
InteriorIter ==
    /\ pc = "interior"
    /\ interiorCond(i, numPoints)
    /\ LET wg == At(filter.weights, halfWindow)
           off == interiorOffset(i, filter.windowSize)
           j == interiorIndex(i, halfWindow)
           ok == /\ convolveReadsOk(wg, data, off, filter.windowSize)
                 /\ getHsReadsOk(h, j, halfWindow)
                 /\ InRange(results, j)
       IN  IF ~ok
           THEN /\ pc' = "panic"
                /\ UNCHANGED <<results, writes, writer, hsCount, hsUsed, i, iters>>
           ELSE LET d == convolve(wg, data, off, filter.windowSize - 1)
                    hs == getHs(h, j, halfWindow, filter.derivative)
                IN  /\ pc' = "interior"
                    /\ results' = Store(results, j, FDiv(d, hs))
                    /\ writes' = Bump(writes, j)
                    /\ writer' = Store(writer, j, "interior")
                    /\ hsCount' = Store(hsCount, j, getHsCount(h, j, halfWindow))
                    /\ hsUsed' = Store(hsUsed, j, hs)
                    /\ i' = i + 1
                    /\ iters' = [iters EXCEPT !.interior = @ + 1]
    /\ UNCHANGED <<ctorArgs, filter, ctorErr, divisors, data, h, procErr, prev>>

\* the interior loop ends: return results, nil
ProcessReturn ==
    /\ pc = "interior"
    /\ ~interiorCond(i, numPoints)
    /\ pc' = "done"
    /\ UNCHANGED <<ctorArgs, filter, ctorErr, divisors, data, h, results, procErr,
                   i, writes, writer, hsCount, hsUsed, iters, prev>>

\* the caller drops the slices of a finished call and keeps the filter
Release ==
    /\ pc \in {"done", "error"}
    /\ pc' = "idle"
    /\ data' = <<>>
    /\ h' = <<>>
    /\ results' = <<>>
    /\ procErr' = FALSE
    /\ i' = 0
    /\ writes' = <<>>
    /\ writer' = <<>>
    /\ hsCount' = <<>>
    /\ hsUsed' = <<>>
    /\ iters' = NoIters
    /\ prev' = NoCall
    /\ UNCHANGED <<ctorArgs, filter, ctorErr, divisors>>

\* the caller constructs one filter and then calls Process on it any number of
\* times
Construct ==
    /\ pc = "start"
    /\ \/ \E w \in (-1)..MaxWindow, d \in (-1)..MaxDeriv, p \in (-1)..MaxPoly :
             NewFilter(w, d, p)
       \/ \E w \in (-1)..MaxWindow : NewFilterWindow(w)

Call ==
    \/ pc = "idle" /\ \E dat \in DataSeqs : \E xx \in XSeqsFor(dat) : Process(dat, xx)
    \/ pc \in {"done", "error"} /\ \E xx \in XSeqs : ProcessAgain(xx)

Next ==
    \/ Construct
    \/ Call
    \/ BorderIter
    \/ InteriorEnter
    \/ InteriorIter
    \/ ProcessReturn
    \/ Release

Spec == Init /\ [][Next]_vars

(***************************************************************************)
(* Properties.                                                             *)
(***************************************************************************)
Constructed == pc \notin {"start", "ctorError"}

Running == pc \in {"border", "interior"}

Odd(n) == n % 2 = 1

\* the sum of the first upto entries of a row of the weight table
RECURSIVE SumRow(_, _)
SumRow(row, upto) == IF upto = 0 THEN Zero ELSE FAdd(SumRow(row, upto - 1), row[upto])

Indices == 0..(Len(data) - 1)

\* C1: NewFilter returns a filter and no error exactly when windowSize is odd
\* and >= 5, derivative >= 0 and polynomial >= 0; in every other case it
\* returns an error and no filter
C1_NewFilterAcceptsExactlyValid ==
    pc # "start" =>
        LET valid == /\ Odd(ctorArgs[1]) /\ ctorArgs[1] >= 5
                     /\ ctorArgs[2] >= 0
                     /\ ctorArgs[3] >= 0
        IN  IF valid
            THEN /\ ~ctorErr
                 /\ filter # NoFilter
                 /\ <<filter.windowSize, filter.derivative, filter.polynomial>> = ctorArgs
                 /\ Len(filter.weights) = filter.windowSize
            ELSE ctorErr /\ filter = NoFilter

\* a filter accepted with a polynomial order as large as its window
C1_Witness == pc = "idle" /\ ~ctorErr /\ ctorArgs = <<5, 1, 5>>

\* C2: Process returns an error and no result exactly when len(data) <
\* windowSize; every other call runs to completion with a result and no error,
\* and no access to data, x or the weight table is out of range, whatever the
\* length of x
C2_ProcessFailsExactlyOnShortData ==
    /\ pc # "panic"
    /\ pc = "error" => Len(data) < filter.windowSize /\ procErr /\ results = <<>>
    /\ pc \in {"border", "interior", "done"} =>
           /\ Len(data) >= filter.windowSize
           /\ ~procErr
           /\ Len(results) = Len(data)
    /\ pc = "border" => i = iters.border /\ i <= halfWindow
    /\ pc = "interior" =>
           i = filter.windowSize + iters.interior /\ i <= numPoints + 1

\* a first-derivative call that completed on an empty x (getHs counts nothing)
C2_Witness ==
    /\ pc = "done"
    /\ Len(h) = 0
    /\ filter.derivative = 1
    /\ numPoints > filter.windowSize

\* C3: a successful call returns len(data) entries; the left border loop
\* assigns exactly 0..half-1, the interior loop exactly half..n-half-1, the
\* right border loop exactly n-half..n-1, each index once
C3_EveryIndexAssignedOnce ==
    /\ Running \/ pc = "done" => \A j \in Indices : At(writes, j) <= 1
    /\ pc = "done" =>
           /\ Len(results) = numPoints
           /\ \A j \in Indices :
                  /\ At(writes, j) = 1
                  /\ At(writer, j) =
                         IF j < halfWindow THEN "left"
                         ELSE IF j <= numPoints - halfWindow - 1 THEN "interior"
                         ELSE "right"

\* a finished call on more samples than the window holds
C3_Witness == pc = "done" /\ numPoints > filter.windowSize + 1

\* C4: with derivative 0 and polynomial < windowSize every row of the weight
\* table sums to 1, and filtering a constant sequence returns the constant at
\* every index, the borders included
C4_ConstantIsPreserved ==
    Constructed /\ filter.derivative = 0 /\ filter.polynomial < filter.windowSize =>
        /\ pc = "idle" =>
               \A r \in 1..filter.windowSize :
                   SumRow(filter.weights[r], filter.windowSize) = One
        /\ pc = "done" /\ data = DataOf("const", numPoints) =>
               \A j \in Indices : At(results, j) = At(data, j)

\* a constant sequence filtered with the highest polynomial order of the window
C4_Witness ==
    /\ pc = "done"
    /\ filter.derivative = 0
    /\ filter.windowSize = 7
    /\ filter.polynomial = 5
    /\ numPoints = 8
    /\ data = DataOf("const", numPoints)

\* C5: with derivative 0 the factor getHs returns is 1 at every index, and two
\* calls on the same data that differ only in x return identical results
C5_SpacingIgnoredForDerivativeZero ==
    Constructed /\ filter.derivative = 0 =>
        /\ Running \/ pc = "done" =>
               \A j \in Indices : At(writer, j) # "none" => At(hsUsed, j) = One
        /\ pc = "done" /\ prev.valid => ~prev.err /\ results = prev.results

\* a second call on the same data with another spacing has finished
C5_Witness ==
    /\ pc = "done"
    /\ filter.derivative = 0
    /\ prev.valid
    /\ prev.h = XOf("unit", Len(h))
    /\ h = XOf("square", Len(h))
    /\ Len(h) = numPoints

\* C6: no step of Process changes the filter or the caller's data and x, and
\* a call repeated with the same inputs returns what the first returned
C6_ProcessHasNoSideEffects ==
    [][/\ Constructed => filter' = filter
       /\ Running \/ (pc \in {"done", "error"} /\ pc' # "idle") => data' = data
       /\ Running => h' = h
       /\ pc' \in {"done", "error"} /\ prev'.valid /\ prev'.h = h' =>
              /\ prev'.err = procErr'
              /\ prev'.results = results'
              /\ prev'.err <=> pc' = "error"]_vars

\* a repeated successful call has finished
C6_Witness == pc = "done" /\ prev.valid /\ prev.h = h /\ filter.derivative = 1

\* the values the three regions of the result hold
C7_Left(j) ==
    FDiv(convolve(At(filter.weights, j), data, 0, filter.windowSize - 1),
         getHs(h, j, halfWindow, filter.derivative))

C7_Right(k) ==
    FDiv(convolve(At(filter.weights, halfWindow + k + 1), data,
                  numPoints - filter.windowSize, filter.windowSize - 1),
         getHs(h, numPoints - halfWindow + k, halfWindow, filter.derivative))

C7_Interior(c) ==
    FDiv(convolve(At(filter.weights, halfWindow), data, c - halfWindow,
                  filter.windowSize - 1),
         getHs(h, c, halfWindow, filter.derivative))

\* C7: result[j] for j < half is row j over the first window, result[n-half+k]
\* for k < half is row half+k+1 over the last window, result[c] for
\* half <= c <= n-half-1 is the center row over data[c-half..c+half], each
\* divided by the spacing factor of its index
C7_RowsAndWindows ==
    pc = "done" =>
        /\ \A j \in 0..(halfWindow - 1) : At(results, j) = C7_Left(j)
        /\ \A k \in 0..(halfWindow - 1) :
               At(results, numPoints - halfWindow + k) = C7_Right(k)
        /\ \A c \in halfWindow..(numPoints - halfWindow - 1) :
               At(results, c) = C7_Interior(c)

\* a first-derivative filter finished on unevenly spaced, non-constant data
C7_Witness ==
    /\ pc = "done"
    /\ filter.derivative = 1
    /\ filter.polynomial = 3
    /\ numPoints > filter.windowSize
    /\ data = DataOf("square", numPoints)
    /\ h = XOf("square", numPoints)

\* C8 as stated: with len(data) = windowSize no border iteration runs and every
\* output comes from the interior loop
C8_InteriorOnly ==
    pc = "done" /\ numPoints = filter.windowSize =>
        /\ Len(results) = numPoints
        /\ iters.border = 0
        /\ \A j \in Indices : At(writer, j) = "interior"

\* C8, amended: with len(data) = windowSize the call succeeds with len(data)
\* values; the border loop runs half times and yields every index but half,
\* the interior loop runs once and yields index half
C8_SingleWindow ==
    pc = "done" /\ numPoints = filter.windowSize =>
        /\ ~procErr
        /\ Len(results) = numPoints
        /\ iters = [border |-> halfWindow, interior |-> 1]
        /\ \A j \in Indices :
               At(writer, j) = IF j < halfWindow THEN "left"
                               ELSE IF j = halfWindow THEN "interior"
                               ELSE "right"

\* NewFilter(7, 0, 3) applied to 7 samples
C8_Witness ==
    /\ pc = "done"
    /\ <<filter.windowSize, filter.derivative, filter.polynomial>> = <<7, 0, 3>>
    /\ numPoints = 7
    /\ Len(h) = 7

\* C9: for every accepted configuration the recursion of gramPolynomial is no
\* deeper than the polynomial order and no divisor of the weight computation
\* is zero
C9_NoZeroDivisor ==
    Constructed =>
        /\ gramDepth(filter.polynomial) <= filter.polynomial
        /\ 0 \notin divisors

\* C10: when len(x) = len(data) every getHs call of Process averages at least
\* half (so at least one) forward differences
C10_GetHsCountPositive ==
    (Running \/ pc = "done") /\ Len(h) = numPoints =>
        \A j \in Indices :
            At(writer, j) # "none" =>
                At(hsCount, j) >= halfWindow /\ At(hsCount, j) > 0

\* a finished call whose first and last index averaged exactly half differences
C10_Witness ==
    /\ pc = "done"
    /\ Len(h) = numPoints
    /\ At(hsCount, 0) = halfWindow
    /\ At(hsCount, numPoints - 1) = halfWindow
    /\ At(hsCount, halfWindow) = 2 * halfWindow

=============================================================================
